---- MODULE Spec2Model ----
(***************************************************************************)
(* Doc.ia ingestion and retrieval pipeline: the DociaRAG retrieval service *)
(* (rag_system.py) over a Chroma collection, and the DocumentProcessor     *)
(* chunker (document_processor.py), and the query handler of the UI        *)
(* (app.py), which patches the search method of the one cached agent.      *)
(*                                                                         *)
(* Texts are opaque integers, titles are sequences of one-character        *)
(* strings (so that truncation and character replacement are computed),    *)
(* identifiers are strings built the way the f-strings build them.         *)
(* Distances are integers in tenths (4 stands for 0.4).                    *)
(***************************************************************************)
EXTENDS Integers, Sequences, FiniteSets, TLC

VARIABLES
    store,      \* the Chroma collection: records in insertion order
    clock,      \* the last reading of datetime.now(), in ticks
    nadds,      \* add_document calls made so far
    returned,   \* doc_ids returned by the add_document calls, in call order
    last,       \* the call that just returned: its arguments and its outcome
    procs,      \* concurrent add_document calls: each one's position
    page,       \* the extractor run: its input and the chunks it produced
    rag_search, \* the attribute agent.rag.search of the one cached agent
    sessions    \* UI sessions: each one's position in the query handler

vars == <<store, clock, nadds, returned, last, procs, page, rag_search, sessions>>

-----------------------------------------------------------------------------
(* Bounds of the model *)

MaxAdds == 2
MaxClock == 2
TicksPerSecond == 2

(* Constants of the program *)

TitleLimit == 30
BatchSize == 100
DefaultNResults == 5

-----------------------------------------------------------------------------
(* Python values *)

None == "<None>"
EmptyDict == [k \in {} |-> None]
Some(v) == [some |-> TRUE, val |-> v]
Nothing == [some |-> FALSE]

\* bool(x) of an optional str: None and "" are falsy
Truthy(s) == s # None /\ s # ""

\* d.get(k, default)
Get(d, k, default) == IF k \in DOMAIN d THEN d[k] ELSE default

\* d[k] = v on a copy of d
SetItem(d, k, v) == [x \in DOMAIN d \cup {k} |-> IF x = k THEN v ELSE d[x]]

Min(a, b) == IF a < b THEN a ELSE b

RECURSIVE Join(_)
Join(chars) == IF chars = <<>> THEN "" ELSE Head(chars) \o Join(Tail(chars))

\* s[:n]
Take(s, n) == SubSeq(s, 1, Min(Len(s), n))

\* s.replace(a, b) for one-character a and b
Replace(s, a, b) == [i \in 1..Len(s) |-> IF s[i] = a THEN b ELSE s[i]]

\* f"{i:04d}"
Pad4(i) ==
    IF i < 10 THEN "000" \o ToString(i)
    ELSE IF i < 100 THEN "00" \o ToString(i)
    ELSE IF i < 1000 THEN "0" \o ToString(i)
    ELSE ToString(i)

\* strftime('%Y%m%d_%H%M%S'): the reading cut to whole seconds, fixed width
Strftime(t) ==
    LET s == t \div TicksPerSecond
    IN  IF s < 10 THEN "0" \o ToString(s) ELSE ToString(s)

-----------------------------------------------------------------------------
(* Inputs *)

Users == {"alice", "bob"}

Pad29 == [i \in 1..29 |-> "x"]
TitleSlash == Pad29 \o <<"/", "1">>
TitleSpace == Pad29 \o <<" ", "2">>

\* the files uploaded: the title typed for each and the number of its chunks
Documents == {[title |-> TitleSlash, n |-> 2], [title |-> TitleSpace, n |-> 1]}

Specialties == {"cardiologia", "general"}

\* doc_data['chunks']: n chunk dicts in page order
Chunks(n) ==
    [i \in 1..n |-> [text |-> i, page |-> i, section |-> "Página " \o ToString(i),
                     tokens |-> 10 * i]]

-----------------------------------------------------------------------------
(* The embedding model and the Chroma collection *)

\* SentenceTransformer.encode: one vector per text, the same for the same text
Encode(text) == <<text>>

\* cosine distance of two vectors, in tenths
Distance(u, v) ==
    LET d == IF u[1] < v[1] THEN v[1] - u[1] ELSE u[1] - v[1]
    IN  3 * d

Ids(coll) == {coll[i].id : i \in 1..Len(coll)}

\* a variant: a record whose id the collection holds replaces the one held (upsert)
CollectionAddUpsert(coll, batch) ==
    LET Fresh(r) == r.id \notin Ids(coll)
        Latest(r) ==
            IF \E j \in 1..Len(batch) : batch[j].id = r.id
            THEN batch[CHOOSE j \in 1..Len(batch) : batch[j].id = r.id]
            ELSE r
    IN  [i \in 1..Len(coll) |-> Latest(coll[i])] \o SelectSeq(batch, Fresh)

\* collection.add: records whose id the collection already holds are ignored
CollectionAdd(coll, batch) ==
    LET Fresh(r) == r.id \notin Ids(coll)
    IN  coll \o SelectSeq(batch, Fresh)

\* a where clause: every key of it equals the record's metadata (AND)
Matches(where, r) ==
    \A k \in DOMAIN where : k \in DOMAIN r.metadata /\ r.metadata[k] = where[k]

\* collection.get(where=...)
CollectionGet(coll, where) ==
    LET Hit(r) == Matches(where, r) IN SelectSeq(coll, Hit)

\* collection.delete(ids=...)
CollectionDelete(coll, ids) ==
    LET Keep(r) == r.id \notin ids IN SelectSeq(coll, Keep)

-----------------------------------------------------------------------------
(* DociaRAG.add_document *)

SafeTitle(title) == Replace(Replace(Take(title, TitleLimit), " ", "_"), "/", "_")

DocId(metadata, t) ==
    Get(metadata, "specialty", "general") \o "_" \o Join(SafeTitle(metadata.title))
        \o "_" \o Strftime(t)

ChunkId(doc_id, i) == doc_id \o "_chunk_" \o Pad4(i)

\* the record of chunk number i (0-based, as enumerate counts)
Record(chunks, metadata, uploaded_by, t, i) ==
    LET chunk == chunks[i + 1]
        doc_id == DocId(metadata, t)
    IN  [id |-> ChunkId(doc_id, i),
         document |-> chunk.text,
         embedding |-> Encode(chunk.text),
         metadata |->
            [doc_id |-> doc_id,
             title |-> Join(metadata.title),
             type |-> Get(metadata, "type", "guideline"),
             specialty |-> Get(metadata, "specialty", "cardiologia"),
             year |-> ToString(Get(metadata, "year", 2024)),
             page |-> ToString(chunk.page),
             section |-> chunk.section,
             tokens |-> ToString(chunk.tokens),
             upload_date |-> t,
             uploaded_by |-> uploaded_by]]

Records(chunks, metadata, uploaded_by, t) ==
    [j \in 1..Len(chunks) |-> Record(chunks, metadata, uploaded_by, t, j - 1)]

\* number of batches range(0, n, batch_size) walks through
NumBatches(n) == (n + BatchSize - 1) \div BatchSize

\* batch number k (from 0) of the records: recs[i:end_idx]
Batch(recs, k) ==
    SubSeq(recs, k * BatchSize + 1, Min((k + 1) * BatchSize, Len(recs)))

\* the collection after batches 0 .. k-1 were added
RECURSIVE AddBatches(_, _, _)
AddBatches(coll, recs, k) ==
    IF k = 0 THEN coll
    ELSE CollectionAdd(AddBatches(coll, recs, k - 1), Batch(recs, k - 1))

\* where an add_document call may fail: nowhere, in encode, or in the add of a batch
AddFailures(n) == {"none", "encode"} \cup {"batch" \o ToString(k) : k \in 0..(NumBatches(n) - 1)}
BatchFailure(k) == "batch" \o ToString(k)

\* a variant: the texts are stored first and embedded afterwards, so a failing
\* encode comes after every batch
BatchesDoneEncodeLast(n, fail) ==
    IF fail = "none" THEN NumBatches(n)
    ELSE IF fail = "encode" THEN NumBatches(n)
    ELSE CHOOSE k \in 0..(NumBatches(n) - 1) : fail = BatchFailure(k)

\* batches written before the call ends
BatchesDone(n, fail) ==
    IF fail = "none" THEN NumBatches(n)
    ELSE IF fail = "encode" THEN 0
    ELSE CHOOSE k \in 0..(NumBatches(n) - 1) : fail = BatchFailure(k)

\* no call is running: the previous one returned and its caller went on
Idle == last.op = "none"

AddDocument(n, metadata, uploaded_by, t, fail) ==
    /\ Idle
    /\ nadds < MaxAdds
    /\ LET chunks == Chunks(n)
           recs == Records(chunks, metadata, uploaded_by, t)
           doc_id == DocId(metadata, t)
       IN  /\ store' = AddBatches(store, recs, BatchesDone(n, fail))
           /\ returned' = IF fail = "none" THEN Append(returned, doc_id) ELSE returned
           /\ last' = [op |-> "add_document", n |-> n, fail |-> fail,
                       raised |-> fail # "none",
                       result |-> IF fail = "none" THEN doc_id ELSE None]
    /\ clock' = t
    /\ nadds' = nadds + 1
    /\ UNCHANGED <<procs, page, rag_search, sessions>>

-----------------------------------------------------------------------------
(* DociaRAG.search *)

\* a variant: user_id only fills in for a missing filter (filters or {uploaded_by})
WhereFilterOnlyWithoutFilters(filters, user_id) ==
    IF filters.some /\ DOMAIN filters.val # {} THEN filters.val
    ELSE IF Truthy(user_id) THEN [uploaded_by |-> user_id] ELSE EmptyDict

\* where_filter: a copy of filters (or {}), with uploaded_by set when user_id is given
WhereFilter(filters, user_id) ==
    LET base == IF filters.some /\ DOMAIN filters.val # {} THEN filters.val ELSE EmptyDict
    IN  IF Truthy(user_id) THEN SetItem(base, "uploaded_by", user_id) ELSE base

\* a variant: the thresholds are compared with <=
DistanceToScoreInclusive(distance) ==
    IF distance <= 4 THEN 10
    ELSE IF distance <= 6 THEN 8
    ELSE IF distance <= 8 THEN 6
    ELSE IF distance <= 10 THEN 4
    ELSE 2

\* _distance_to_score, on tenths
DistanceToScore(distance) ==
    IF distance < 4 THEN 10
    ELSE IF distance < 6 THEN 8
    ELSE IF distance < 8 THEN 6
    ELSE IF distance < 10 THEN 4
    ELSE 2

\* ascending distance; records at the same distance stay in collection order
RECURSIVE SortByDistance(_)
RECURSIVE InsertHit(_, _)
InsertHit(h, s) ==
    IF s = <<>> THEN <<h>>
    ELSE IF h.distance <= Head(s).distance THEN <<h>> \o s
    ELSE <<Head(s)>> \o InsertHit(h, Tail(s))
SortByDistance(s) ==
    IF s = <<>> THEN <<>> ELSE InsertHit(Head(s), SortByDistance(Tail(s)))

\* collection.query(query_embeddings=[e], n_results=n, where=where or None)
CollectionQuery(coll, e, n, where) ==
    LET hits == IF DOMAIN where = {} THEN coll ELSE CollectionGet(coll, where)
        scored == [i \in 1..Len(hits) |->
                     [id |-> hits[i].id, document |-> hits[i].document,
                      metadata |-> hits[i].metadata,
                      distance |-> Distance(e, hits[i].embedding)]]
    IN  Take(SortByDistance(scored), n)

\* a variant: the hits are listed from the last one returned to the first
FormatReversed(results) ==
    [i \in 1..Len(results) |->
        LET r == results[Len(results) + 1 - i]
        IN  [chunk_id |-> r.id, text |-> r.document, distance |-> r.distance,
             metadata |-> r.metadata,
             relevance_score |-> DistanceToScore(r.distance)]]

\* formatted: one dict per hit, in the order the collection returned them
Format(results) ==
    [i \in 1..Len(results) |->
        [chunk_id |-> results[i].id,
         text |-> results[i].document,
         distance |-> results[i].distance,
         metadata |-> results[i].metadata,
         relevance_score |-> DistanceToScore(results[i].distance)]]

SearchFailures == {"none", "encode", "query"}

\* a variant: the query runs outside any try, so its failure leaves search
SearchOutcomeNoCatch(coll, query, n_results, filters, user_id, fail) ==
    IF fail \in {"encode", "query"} THEN [raised |-> TRUE, value |-> <<>>]
    ELSE [raised |-> FALSE,
          value |-> Format(CollectionQuery(coll, Encode(query), n_results,
                                           WhereFilter(filters, user_id)))]

\* what search does: raised (the exception leaves search) or the list returned
SearchOutcome(coll, query, n_results, filters, user_id, fail) ==
    IF fail = "encode" THEN [raised |-> TRUE, value |-> <<>>]
    ELSE IF fail = "query" THEN [raised |-> FALSE, value |-> <<>>]
    ELSE [raised |-> FALSE,
          value |-> Format(CollectionQuery(coll, Encode(query), n_results,
                                           WhereFilter(filters, user_id)))]

Queries == {0}
NResults == {1, DefaultNResults}
FilterInputs ==
    {Nothing, Some(EmptyDict), Some([specialty |-> "cardiologia"]),
     Some([uploaded_by |-> "bob"])}
UserIdInputs == {None, ""} \cup Users

Search(query, n_results, filters, user_id, fail) ==
    /\ Idle
    /\ LET out == SearchOutcome(store, query, n_results, filters, user_id, fail)
       IN  last' = [op |-> "search", query |-> query, n_results |-> n_results,
                    filters |-> filters, user_id |-> user_id, fail |-> fail,
                    raised |-> out.raised, result |-> out.value]
    /\ UNCHANGED <<store, clock, nadds, returned, procs, page, rag_search, sessions>>

-----------------------------------------------------------------------------
(* DociaRAG.delete_document *)

DeleteFailures == {"none", "get", "delete"}

\* a variant: only the first chunk found is deleted
DeleteOutcomeFirstOnly(coll, doc_id, fail) ==
    LET results == CollectionGet(coll, [doc_id |-> doc_id])
    IN  IF fail # "none" \/ results = <<>> THEN [coll |-> coll, value |-> FALSE]
        ELSE [coll |-> CollectionDelete(coll, {results[1].id}), value |-> TRUE]

\* the collection afterwards and the value returned
DeleteOutcome(coll, doc_id, fail) ==
    LET results == CollectionGet(coll, [doc_id |-> doc_id])
        ids == Ids(results)
    IN  IF fail = "get" THEN [coll |-> coll, value |-> FALSE]
        ELSE IF ids # {}
             THEN IF fail = "delete" THEN [coll |-> coll, value |-> FALSE]
                  ELSE [coll |-> CollectionDelete(coll, ids), value |-> TRUE]
             ELSE [coll |-> coll, value |-> FALSE]

DocIds(coll) == {coll[i].metadata.doc_id : i \in 1..Len(coll)}

DeleteDocument(doc_id, fail) ==
    /\ Idle
    /\ LET out == DeleteOutcome(store, doc_id, fail)
       IN  /\ store' = out.coll
           /\ last' = [op |-> "delete_document", doc_id |-> doc_id, fail |-> fail,
                       raised |-> FALSE, result |-> out.value]
    /\ UNCHANGED <<clock, nadds, returned, procs, page, rag_search, sessions>>

-----------------------------------------------------------------------------
(* DociaRAG.get_collection_stats *)

StatsFailures == {"none", "count", "get"}

Metadatas(coll) == [i \in 1..Len(coll) |-> coll[i].metadata]

\* len(set(...)) of the doc_id of each metadata
UniqueDocs(metadatas) ==
    Cardinality({Get(metadatas[i], "doc_id", "unknown") : i \in 1..Len(metadatas)})

\* by_user: for each uploader met, the number of its records
ByUser(metadatas) ==
    LET User(m) == Get(m, "uploaded_by", "sistema")
    IN  [u \in {User(metadatas[i]) : i \in 1..Len(metadatas)} |->
            Cardinality({i \in 1..Len(metadatas) : User(metadatas[i]) = u})]

\* a variant: the scoped view counts documents over all the records
StatsOutcomeUnscopedDocs(coll, user_id, fail) ==
    LET count == Len(coll)
        all_metadata == Metadatas(coll)
        Own(m) == Get(m, "uploaded_by", None) = user_id
    IN  IF fail = "count" THEN [raised |-> TRUE, value |-> EmptyDict]
        ELSE IF fail = "get" \/ count = 0
        THEN [raised |-> FALSE,
              value |-> [total_chunks |-> count, unique_docs |-> 0,
                         by_user |-> EmptyDict]]
        ELSE IF Truthy(user_id)
        THEN [raised |-> FALSE,
              value |-> [total_chunks |-> Len(SelectSeq(all_metadata, Own)),
                         unique_docs |-> UniqueDocs(all_metadata)]]
        ELSE [raised |-> FALSE,
              value |-> [total_chunks |-> count,
                         unique_docs |-> UniqueDocs(all_metadata),
                         by_user |-> ByUser(all_metadata)]]

\* what get_collection_stats does: count() is outside the try, get() inside
StatsOutcome(coll, user_id, fail) ==
    LET count == Len(coll)
        all_metadata == Metadatas(coll)
        Own(m) == Get(m, "uploaded_by", None) = user_id
        user_metadata == SelectSeq(all_metadata, Own)
    IN  IF fail = "count" THEN [raised |-> TRUE, value |-> EmptyDict]
        ELSE IF count = 0
        THEN [raised |-> FALSE,
              value |-> [total_chunks |-> 0, unique_docs |-> 0,
                         by_user |-> EmptyDict]]
        ELSE IF fail = "get"
        THEN [raised |-> FALSE,
              value |-> [total_chunks |-> count, unique_docs |-> 0,
                         by_user |-> EmptyDict]]
        ELSE IF Truthy(user_id)
        THEN [raised |-> FALSE,
              value |-> [total_chunks |-> Len(user_metadata),
                         unique_docs |-> UniqueDocs(user_metadata)]]
        ELSE [raised |-> FALSE,
              value |-> [total_chunks |-> count,
                         unique_docs |-> UniqueDocs(all_metadata),
                         by_user |-> ByUser(all_metadata)]]

GetCollectionStats(user_id, fail) ==
    /\ Idle
    /\ LET out == StatsOutcome(store, user_id, fail)
       IN  last' = [op |-> "get_collection_stats", user_id |-> user_id,
                    fail |-> fail, raised |-> out.raised, result |-> out.value]
    /\ UNCHANGED <<store, clock, nadds, returned, procs, page, rag_search, sessions>>

-----------------------------------------------------------------------------
(* DociaRAG.get_user_documents *)

UserDocsFailures == {"none", "get"}

\* the dict kept for a document, from one of its metadatas
Summary(meta) ==
    [doc_id |-> meta.doc_id,
     title |-> Get(meta, "title", "Sin título"),
     type |-> Get(meta, "type", "desconocido"),
     specialty |-> Get(meta, "specialty", "general"),
     year |-> Get(meta, "year", "N/A"),
     upload_date |-> Get(meta, "upload_date", "N/A")]

\* list(docs.values()) after the loop over metadatas from number i on: a doc_id
\* enters docs the first time it is met
RECURSIVE GroupByDocId(_, _, _)
GroupByDocId(metadatas, i, docs) ==
    IF i > Len(metadatas) THEN docs
    ELSE LET meta == metadatas[i]
             doc_id == Get(meta, "doc_id", None)
             Seen(d) == d.doc_id = doc_id
         IN  GroupByDocId(metadatas, i + 1,
                          IF Truthy(doc_id) /\ SelectSeq(docs, Seen) = <<>>
                          THEN Append(docs, Summary(meta))
                          ELSE docs)

\* what get_user_documents returns; a failure of the get is caught
UserDocuments(coll, user_id, fail) ==
    LET results == CollectionGet(coll, [uploaded_by |-> user_id])
    IN  IF fail = "get" THEN <<>>
        ELSE IF results = <<>> THEN <<>>
        ELSE GroupByDocId(Metadatas(results), 1, <<>>)

GetUserDocuments(user_id, fail) ==
    /\ Idle
    /\ last' = [op |-> "get_user_documents", user_id |-> user_id, fail |-> fail,
                raised |-> FALSE, result |-> UserDocuments(store, user_id, fail)]
    /\ UNCHANGED <<store, clock, nadds, returned, procs, page, rag_search, sessions>>

-----------------------------------------------------------------------------
(* The service, one call at a time *)

NoProcs == <<>>
NoPage == [op |-> "none"]
NoSessions == <<>>

\* the bound method DociaRAG.search, which agent.rag.search is after construction
OriginalSearch == [kind |-> "original"]

Init ==
    /\ store = <<>>
    /\ clock = 0
    /\ nadds = 0
    /\ returned = <<>>
    /\ last = [op |-> "none"]
    /\ procs = NoProcs
    /\ rag_search = OriginalSearch
    /\ sessions = NoSessions
    /\ page = NoPage

\* the call returned: its caller takes the outcome and the service is idle again
Return ==
    /\ ~Idle
    /\ last' = [op |-> "none"]
    /\ UNCHANGED <<store, clock, nadds, returned, procs, page, rag_search, sessions>>

Next ==
    \/ \E d \in Documents, s \in Specialties, u \in Users, t \in clock..MaxClock :
          \E f \in AddFailures(d.n) :
             AddDocument(d.n, [title |-> d.title, specialty |-> s], u, t, f)
    \/ \E q \in Queries, n \in NResults, f \in FilterInputs, u \in UserIdInputs,
          x \in SearchFailures : Search(q, n, f, u, x)
    \/ \E d \in DocIds(store) \cup {"missing"}, x \in DeleteFailures :
          DeleteDocument(d, x)
    \/ \E u \in UserIdInputs, x \in StatsFailures : GetCollectionStats(u, x)
    \/ \E u \in Users, x \in UserDocsFailures : GetUserDocuments(u, x)
    \/ Return

Spec == Init /\ [][Next]_vars

-----------------------------------------------------------------------------
(* Two add_document calls running at once, interleaved between the batches *)

Procs == {1, 2}

\* the two different files: each spans more than one batch
ConcDocuments ==
    <<[title |-> TitleSlash, n |-> BatchSize + 1],
      [title |-> TitleSpace, n |-> BatchSize + 2]>>

IdleProc == [pc |-> "idle"]

\* the records the call of p prepared before its first write
ProcRecords(pr) == Records(Chunks(pr.n), pr.metadata, pr.uploaded_by, pr.t)

\* lines 49-87: doc_id, the records and their embeddings; encode may raise
Begin(p, specialty, uploaded_by, t, fail) ==
    /\ procs[p].pc = "idle"
    /\ LET d == ConcDocuments[p]
           metadata == [title |-> d.title, specialty |-> specialty]
       IN  procs' = [procs EXCEPT ![p] =
                        [pc |-> IF fail = "encode" THEN "raised"
                                ELSE IF NumBatches(d.n) = 0 THEN "done" ELSE "write",
                         n |-> d.n, metadata |-> metadata, uploaded_by |-> uploaded_by,
                         t |-> t, k |-> 0, doc_id |-> DocId(metadata, t)]]
    /\ clock' = t
    /\ UNCHANGED <<store, nadds, returned, last, page, rag_search, sessions>>

\* lines 93-101: one turn of the loop, the add of batch k; it may raise
WriteBatch(p, fail) ==
    /\ procs[p].pc = "write"
    /\ LET pr == procs[p]
           done == pr.k + 1 = NumBatches(pr.n)
       IN  IF fail
           THEN /\ procs' = [procs EXCEPT ![p].pc = "raised"]
                /\ UNCHANGED <<store, returned>>
           ELSE /\ store' = CollectionAdd(store, Batch(ProcRecords(pr), pr.k))
                /\ procs' = [procs EXCEPT ![p].k = pr.k + 1,
                                          ![p].pc = IF done THEN "done" ELSE "write"]
                /\ returned' = IF done THEN Append(returned, pr.doc_id) ELSE returned
    /\ UNCHANGED <<clock, nadds, last, page, rag_search, sessions>>

InitConc ==
    /\ store = <<>>
    /\ clock = 0
    /\ nadds = 0
    /\ returned = <<>>
    /\ last = [op |-> "none"]
    /\ procs = [p \in Procs |-> IdleProc]
    /\ rag_search = OriginalSearch
    /\ sessions = NoSessions
    /\ page = NoPage

NextConc ==
    \/ \E p \in Procs, s \in Specialties, u \in Users, t \in clock..MaxClock,
          f \in {"none", "encode"} : Begin(p, s, u, t, f)
    \/ \E p \in Procs, f \in BOOLEAN : WriteBatch(p, f)

SpecConc == InitConc /\ [][NextConc]_vars

-----------------------------------------------------------------------------
(* Documents of several batches, one call after the other *)

\* a call starts when no other call is between its first and its last write
BeginAlone(p, specialty, uploaded_by, t, fail) ==
    /\ \A q \in Procs : procs[q].pc # "write"
    /\ Begin(p, specialty, uploaded_by, t, fail)

NextSeq ==
    \/ \E p \in Procs, s \in Specialties, u \in Users, t \in clock..MaxClock,
          f \in {"none", "encode"} : BeginAlone(p, s, u, t, f)
    \/ \E p \in Procs, f \in BOOLEAN : WriteBatch(p, f)

SpecSeq == InitConc /\ [][NextSeq]_vars

-----------------------------------------------------------------------------
(* The query handler of the UI (app.py) on the one cached agent *)

MaxQueries == 2

Sessions == {1, 2}

\* st.session_state.current_user of each session
SessionUser == <<"alice", "bob">>

OwnDocs == "Solo mis documentos"
AllDocs == "Todos los documentos"
Scopes == {OwnDocs, AllDocs}

\* the collection the sessions query: a document of each user
UIStore ==
    Records(Chunks(1), [title |-> TitleSlash, specialty |-> "cardiologia"], "alice", 0)
        \o Records(Chunks(1), [title |-> TitleSpace, specialty |-> "general"], "bob", 0)

\* the closure filtered_search: it holds user_filter and original_search
FilteredSearch(user_filter, original_search) ==
    [kind |-> "filtered", user_filter |-> user_filter,
     original_search |-> original_search]

\* self.rag.search(query=user_question, n_results=5) in generate_response, f
\* being what the attribute holds: filtered_search passes user_id on to its
\* original_search, and another filtered_search takes no such argument
\* (TypeError)
CallSearch(f, coll, query, fail) ==
    IF f.kind = "original"
    THEN SearchOutcome(coll, query, DefaultNResults, Nothing, None, fail)
    ELSE IF f.original_search.kind = "original"
    THEN SearchOutcome(coll, query, DefaultNResults, Nothing, f.user_filter, fail)
    ELSE [raised |-> TRUE, value |-> <<>>]

IdleSession == [pc |-> "idle", asked |-> 0, answer |-> [kind |-> "none"]]

\* line 390: the button was pressed; user_filter from the scope chosen
Ask(s, scope) ==
    /\ sessions[s].pc = "idle"
    /\ sessions[s].asked < MaxQueries
    /\ sessions' = [sessions EXCEPT ![s] =
                      [pc |-> "save", asked |-> sessions[s].asked + 1,
                       scope |-> scope,
                       user_filter |-> IF scope = OwnDocs THEN SessionUser[s] ELSE None,
                       answer |-> [kind |-> "none"]]]
    /\ UNCHANGED <<store, clock, nadds, returned, last, procs, page, rag_search>>

\* line 393: original_search = agent.rag.search
SaveOriginal(s) ==
    /\ sessions[s].pc = "save"
    /\ sessions' = [sessions EXCEPT ![s] =
                      [pc |-> "install", asked |-> sessions[s].asked,
                       scope |-> sessions[s].scope,
                       user_filter |-> sessions[s].user_filter,
                       original_search |-> rag_search,
                       answer |-> sessions[s].answer]]
    /\ UNCHANGED <<store, clock, nadds, returned, last, procs, page, rag_search>>

\* lines 395-398: agent.rag.search = filtered_search
InstallFiltered(s) ==
    /\ sessions[s].pc = "install"
    /\ rag_search' = FilteredSearch(sessions[s].user_filter, sessions[s].original_search)
    /\ sessions' = [sessions EXCEPT ![s].pc = "generate"]
    /\ UNCHANGED <<store, clock, nadds, returned, last, procs, page>>

\* what may go wrong in generate_response: the query embedding, the collection
\* query, the call of Gemini (caught there: an answer without sources)
GenerateFailures == {"none", "encode", "query", "llm"}

\* lines 400-405 and 485-487: generate_response; an exception of the search
\* leaves it and is caught by the handler's except, past the restore, so the
\* attribute stays as it is
GenerateResponse(s, fail) ==
    /\ sessions[s].pc = "generate"
    /\ LET out == CallSearch(rag_search, store, 0,
                             IF fail = "llm" THEN "none" ELSE fail)
       IN  IF out.raised
           THEN /\ sessions' = [sessions EXCEPT ![s].pc = "idle",
                                                ![s].answer = [kind |-> "error",
                                                               fail |-> fail]]
                /\ UNCHANGED rag_search
           ELSE /\ sessions' = [sessions EXCEPT
                                  ![s].pc = "restore",
                                  ![s].answer =
                                      [kind |-> "sources", fail |-> fail,
                                       sources |-> IF fail = "llm" THEN <<>>
                                                   ELSE out.value]]
                /\ UNCHANGED rag_search
    /\ UNCHANGED <<store, clock, nadds, returned, last, procs, page>>

\* line 408: agent.rag.search = original_search
Restore(s) ==
    /\ sessions[s].pc = "restore"
    /\ rag_search' = sessions[s].original_search
    /\ sessions' = [sessions EXCEPT ![s].pc = "idle"]
    /\ UNCHANGED <<store, clock, nadds, returned, last, procs, page>>

InitUI ==
    /\ store = UIStore
    /\ clock = 0
    /\ nadds = 0
    /\ returned = <<>>
    /\ last = [op |-> "none"]
    /\ procs = NoProcs
    /\ page = NoPage
    /\ rag_search = OriginalSearch
    /\ sessions = [s \in Sessions |-> IdleSession]

\* the sessions run their handlers in threads of their own
NextUI ==
    \/ \E s \in Sessions, scope \in Scopes : Ask(s, scope)
    \/ \E s \in Sessions : SaveOriginal(s)
    \/ \E s \in Sessions : InstallFiltered(s)
    \/ \E s \in Sessions, f \in GenerateFailures : GenerateResponse(s, f)
    \/ \E s \in Sessions : Restore(s)

SpecUI == InitUI /\ [][NextUI]_vars

\* a handler starts when no other session is inside its own
AskAlone(s, scope) ==
    /\ \A r \in Sessions : sessions[r].pc = "idle"
    /\ Ask(s, scope)

NextUISeq ==
    \/ \E s \in Sessions, scope \in Scopes : AskAlone(s, scope)
    \/ \E s \in Sessions : SaveOriginal(s)
    \/ \E s \in Sessions : InstallFiltered(s)
    \/ \E s \in Sessions, f \in GenerateFailures : GenerateResponse(s, f)
    \/ \E s \in Sessions : Restore(s)

SpecUISeq == InitUI /\ [][NextUISeq]_vars

-----------------------------------------------------------------------------
(* DocumentProcessor: token counting and _split_by_sections                *)
(*                                                                         *)
(* A text is the sequence of its paragraphs (what split('\n\n') yields); a *)
(* paragraph is the sequence of its lines with its length in characters,   *)
(* its token count and whether it ends in a period.                        *)

ChunkBudget == 600
ShortLimit == 100
MaxParas == 3
MaxPage == 2

\* tokens of the separator after paragraph p: cl100k_base has one token for a
\* period with its line breaks, and one for the line breaks alone
SepTokens(p) == IF p.dot THEN 0 ELSE 1

\* count_tokens of the paragraphs joined by blank lines
RECURSIVE CountTokens(_)
CountTokens(paras) ==
    IF paras = <<>> THEN 0
    ELSE IF Len(paras) = 1 THEN paras[1].tok
    ELSE paras[1].tok + SepTokens(paras[1]) + CountTokens(Tail(paras))

\* p.strip() is empty
Blank(p) == p.len = 0

\* [p.strip() for p in text.split('\n\n') if p.strip()]
Paragraphs(text) == LET Solid(p) == ~Blank(p) IN SelectSeq(text, Solid)

PageLabel(page_num) == <<"Página " \o ToString(page_num)>>

MakeChunk(current_chunk, page_num, current_section) ==
    [text |-> current_chunk, page |-> page_num, section |-> current_section,
     tokens |-> CountTokens(current_chunk)]

\* a variant: the budget is tested on the paragraph alone
FitsParagraphAlone(current_chunk, para) == CountTokens(<<para>>) < ChunkBudget

\* a variant: a buffer of exactly the budget is still accepted
FitsInclusive(current_chunk, para) ==
    CountTokens(Append(current_chunk, para)) <= ChunkBudget

\* count_tokens(test_chunk) < 600, test_chunk being the buffer with para appended
Fits(current_chunk, para) == CountTokens(Append(current_chunk, para)) < ChunkBudget

\* the paragraph looks like a heading
LooksLikeTitle(para) == para.len < ShortLimit /\ ~para.dot

\* the for loop from paragraph i on, and the final flush
RECURSIVE SplitLoop(_, _, _, _, _, _)
SplitLoop(paragraphs, i, chunks, current_chunk, current_section, page_num) ==
    IF i > Len(paragraphs)
    THEN IF current_chunk # <<>>
         THEN Append(chunks, MakeChunk(current_chunk, page_num, current_section))
         ELSE chunks
    ELSE LET para == paragraphs[i]
         IN  IF Fits(current_chunk, para)
             THEN SplitLoop(paragraphs, i + 1, chunks, Append(current_chunk, para),
                            current_section, page_num)
             ELSE SplitLoop(paragraphs, i + 1,
                            IF current_chunk # <<>>
                            THEN Append(chunks, MakeChunk(current_chunk, page_num,
                                                          current_section))
                            ELSE chunks,
                            <<para>>,
                            IF LooksLikeTitle(para) THEN para.lines ELSE current_section,
                            page_num)

\* a variant: a short first paragraph is taken as the heading and not chunked
SplitBySectionsTitleConsumed(text, page_num) ==
    IF CountTokens(text) < ChunkBudget
    THEN <<MakeChunk(text, page_num, PageLabel(page_num))>>
    ELSE LET paragraphs == Paragraphs(text)
             short == paragraphs # <<>> /\ paragraphs[1].len < ShortLimit
         IN  SplitLoop(paragraphs, IF short THEN 2 ELSE 1, <<>>, <<>>,
                       IF short THEN paragraphs[1].lines ELSE PageLabel(page_num),
                       page_num)

\* a variant: without the early return, short pages go through the loop too
SplitBySectionsAlwaysLoop(text, page_num) ==
    LET paragraphs == Paragraphs(text)
        first_section ==
            IF paragraphs # <<>> /\ paragraphs[1].len < ShortLimit
            THEN paragraphs[1].lines
            ELSE PageLabel(page_num)
    IN  SplitLoop(paragraphs, 1, <<>>, <<>>, first_section, page_num)

\* _split_by_sections: a page under the budget is one chunk, a longer one is
\* cut at paragraph boundaries
SplitBySections(text, page_num) ==
    IF CountTokens(text) < ChunkBudget
    THEN <<MakeChunk(text, page_num, PageLabel(page_num))>>
    ELSE LET paragraphs == Paragraphs(text)
             first_section ==
                 IF paragraphs # <<>> /\ paragraphs[1].len < ShortLimit
                 THEN paragraphs[1].lines
                 ELSE PageLabel(page_num)
         IN  SplitLoop(paragraphs, 1, <<>>, <<>>, first_section, page_num)

-----------------------------------------------------------------------------
(* DocumentProcessor.extract_from_ppt, one slide *)

\* "\n".join(content) as one paragraph: a line break costs a token unless it
\* follows a period
RECURSIVE JoinLines(_)
JoinLines(content) ==
    IF Len(content) = 1 THEN content[1]
    ELSE LET rest == JoinLines(Tail(content))
             head == content[1]
         IN  [lines |-> head.lines \o rest.lines,
              len |-> head.len + 1 + rest.len,
              tok |-> head.tok + SepTokens(head) + rest.tok,
              dot |-> rest.dot]

\* the texts of the slide's shapes, the title placeholder among them, that are not empty
Content(slide) == LET HasText(sh) == sh.len > 0 IN SelectSeq(slide.shapes, HasText)

\* slide.shapes.title.text, or "" without a title placeholder
SlideTitle(slide) ==
    IF slide.title = 0 THEN <<>> ELSE
    LET sh == slide.shapes[slide.title] IN IF sh.len > 0 THEN <<sh>> ELSE <<>>

\* _clean_text(f"{title}\n\n" + "\n".join(content)) as paragraphs
FullText(slide) ==
    SlideTitle(slide) \o
        (IF Content(slide) = <<>> THEN <<>> ELSE <<JoinLines(Content(slide))>>)

\* the chunks one slide adds: none for a slide without text
SlideChunks(slide, slide_num) ==
    LET full_text == FullText(slide)
        title == SlideTitle(slide)
    IN  IF full_text = <<>> THEN <<>>
        ELSE <<[text |-> full_text,
                page |-> slide_num,
                section |-> IF title # <<>> THEN title[1].lines
                            ELSE <<"Slide " \o ToString(slide_num)>>,
                type |-> "slide",
                tokens |-> CountTokens(full_text)]>>

-----------------------------------------------------------------------------
(* The extractors on one page or one slide *)

\* kinds of paragraph: a heading, a short sentence, bodies just under and at
\* half the budget, a paragraph of exactly the budget, one above it, a blank
ParaKinds ==
    {[len |-> 20, tok |-> 5, dot |-> FALSE],
     [len |-> 80, tok |-> 20, dot |-> TRUE],
     [len |-> 1200, tok |-> 300, dot |-> TRUE],
     [len |-> 1196, tok |-> 299, dot |-> FALSE],
     [len |-> 2400, tok |-> 600, dot |-> TRUE],
     [len |-> 2800, tok |-> 700, dot |-> TRUE],
     [len |-> 0, tok |-> 1, dot |-> FALSE]}

Named(kind, name) ==
    [lines |-> <<name>>, len |-> kind.len, tok |-> kind.tok, dot |-> kind.dot]

\* normalized page texts: paragraph i is named "p<i>"; the text is stripped, so
\* it neither starts nor ends with a blank paragraph
PageTexts ==
    UNION {{[i \in 1..n |-> Named(ks[i], "p" \o ToString(i))] :
              ks \in {k \in [1..n -> ParaKinds] : ~Blank(k[1]) /\ ~Blank(k[n])}} :
           n \in 1..MaxParas}

\* slides: the shapes in order, shape i named "s<i>", and which one is the title
\* placeholder (0: none)
Slides ==
    UNION {{[title |-> t, shapes |-> [i \in 1..n |-> Named(ks[i], "s" \o ToString(i))]] :
              ks \in [1..n -> ParaKinds], t \in 0..Min(n, 1)} :
           n \in 0..(MaxParas - 1)}

InitChunk ==
    /\ store = <<>>
    /\ clock = 0
    /\ nadds = 0
    /\ returned = <<>>
    /\ last = [op |-> "none"]
    /\ procs = NoProcs
    /\ rag_search = OriginalSearch
    /\ sessions = NoSessions
    /\ \/ \E text \in PageTexts, n \in 1..MaxPage :
             page = [op |-> "page", text |-> text, num |-> n]
       \/ \E slide \in Slides, n \in 1..MaxPage :
             page = [op |-> "slide", slide |-> slide, num |-> n]

\* extract_from_pdf on one page: its normalized text goes through _split_by_sections
SplitPage ==
    /\ page.op = "page"
    /\ page' = [op |-> "split", text |-> page.text, num |-> page.num,
                chunks |-> SplitBySections(page.text, page.num)]
    /\ UNCHANGED <<store, clock, nadds, returned, last, procs, rag_search, sessions>>

\* extract_from_ppt on one slide
ExtractSlide ==
    /\ page.op = "slide"
    /\ page' = [op |-> "extracted", slide |-> page.slide, num |-> page.num,
                chunks |-> SlideChunks(page.slide, page.num)]
    /\ UNCHANGED <<store, clock, nadds, returned, last, procs, rag_search, sessions>>

NextChunk == SplitPage \/ ExtractSlide

SpecChunk == InitChunk /\ [][NextChunk]_vars

-----------------------------------------------------------------------------
(* DocumentProcessor.extract_from_pdf and extract_from_ppt on a whole file *)

\* _clean_text on a page given as paragraphs: the blank ones at both ends go
RECURSIVE StripBlank(_)
StripBlank(text) ==
    IF text = <<>> THEN text
    ELSE IF Blank(Head(text)) THEN StripBlank(Tail(text))
    ELSE IF Blank(text[Len(text)]) THEN StripBlank(SubSeq(text, 1, Len(text) - 1))
    ELSE text

\* title.lower() of the document titles used here
Lower(title) == IF title = "Untitled" THEN "untitled" ELSE title

Placeholders == {"untitled", "sin título", "documento"}

\* _extract_title: the title of the metadata unless empty or a placeholder,
\* else the first of the leading five lines of page one that looks like a title,
\* else its first line, else the fallback
ExtractTitle(file) ==
    IF file.title # "" /\ Lower(file.title) \notin Placeholders THEN file.title
    ELSE IF file.pages = <<>> THEN "Documento sin título"
    ELSE LET lines == Take(Paragraphs(file.pages[1]), 5)
             TitleLike(l) == 10 < l.len /\ l.len < 150 /\ ~l.dot
             titles == SelectSeq(lines, TitleLike)
         IN  IF lines = <<>> THEN "Documento sin título"
             ELSE IF titles # <<>> THEN titles[1].lines[1]
             ELSE lines[1].lines[1]

\* the chunks of the pages from number i on
RECURSIVE PdfChunks(_, _)
PdfChunks(pages, i) ==
    IF i > Len(pages) THEN <<>>
    ELSE LET text == StripBlank(pages[i])
         IN  (IF text = <<>> THEN <<>> ELSE SplitBySections(text, i))
                 \o PdfChunks(pages, i + 1)

\* the chunks of the slides from number i on
RECURSIVE PptChunks(_, _)
PptChunks(slides, i) ==
    IF i > Len(slides) THEN <<>>
    ELSE SlideChunks(slides[i], i) \o PptChunks(slides, i + 1)

\* a variant: fitz.open is called outside any try
PdfResultNoCatch(file) ==
    IF ~file.opens
    THEN [raised |-> TRUE, value |-> [metadata |-> EmptyDict, chunks |-> <<>>]]
    ELSE [raised |-> FALSE,
          value |-> [metadata |-> [title |-> ExtractTitle(file),
                                   pages |-> Len(file.pages),
                                   type |-> "guideline"],
                     chunks |-> PdfChunks(file.pages, 1)]]

\* what extract_from_pdf does with a file
PdfResult(file) ==
    IF ~file.opens
    THEN [raised |-> FALSE, value |-> [metadata |-> EmptyDict, chunks |-> <<>>]]
    ELSE [raised |-> FALSE,
          value |-> [metadata |-> [title |-> ExtractTitle(file),
                                   pages |-> Len(file.pages),
                                   type |-> "guideline"],
                     chunks |-> PdfChunks(file.pages, 1)]]

\* what extract_from_ppt does with a file
PptResult(file) ==
    IF ~file.opens
    THEN [raised |-> FALSE, value |-> [metadata |-> EmptyDict, chunks |-> <<>>]]
    ELSE [raised |-> FALSE,
          value |-> [metadata |-> [title |-> IF file.title # "" THEN file.title
                                             ELSE "Presentación sin título",
                                   pages |-> Len(file.pages),
                                   type |-> "presentation"],
                     chunks |-> PptChunks(file.pages, 1)]]

\* pages of one paragraph, the blank page among them, and slides of one shape
\* at most
OneParagraphPages == {<<Named(k, "p1")>> : k \in ParaKinds}
SmallSlides == {sl \in Slides : Len(sl.shapes) <= 1}

PagesOf(S) == UNION {[1..n -> S] : n \in 0..MaxPage}

\* the files handed to the extractors: whether they open, the title in their
\* properties, their pages or slides
PdfFiles ==
    {[kind |-> "pdf", opens |-> o, title |-> t, pages |-> ps] :
        o \in BOOLEAN, t \in {"", "Untitled", "Guía"}, ps \in PagesOf(OneParagraphPages)}
PptFiles ==
    {[kind |-> "ppt", opens |-> o, title |-> t, pages |-> ps] :
        o \in BOOLEAN, t \in {"", "Sesión"}, ps \in PagesOf(SmallSlides)}

InitExtract ==
    /\ store = <<>>
    /\ clock = 0
    /\ nadds = 0
    /\ returned = <<>>
    /\ last = [op |-> "none"]
    /\ procs = NoProcs
    /\ rag_search = OriginalSearch
    /\ sessions = NoSessions
    /\ \E file \in PdfFiles \cup PptFiles : page = [op |-> "file", file |-> file]

ExtractFromPdf ==
    /\ page.op = "file"
    /\ page.file.kind = "pdf"
    /\ LET out == PdfResult(page.file)
       IN  page' = [op |-> "result", file |-> page.file, raised |-> out.raised,
                    result |-> out.value]
    /\ UNCHANGED <<store, clock, nadds, returned, last, procs, rag_search, sessions>>

ExtractFromPpt ==
    /\ page.op = "file"
    /\ page.file.kind = "ppt"
    /\ LET out == PptResult(page.file)
       IN  page' = [op |-> "result", file |-> page.file, raised |-> out.raised,
                    result |-> out.value]
    /\ UNCHANGED <<store, clock, nadds, returned, last, procs, rag_search, sessions>>

NextExtract == ExtractFromPdf \/ ExtractFromPpt

SpecExtract == InitExtract /\ [][NextExtract]_vars

-----------------------------------------------------------------------------
(* DocumentProcessor._clean_text, character by character *)

MaxChars == 5
MaxPasses == 2

\* a space, a line break, another whitespace character, any other character
Chars == {" ", "\n", "\t", "a"}

\* str.strip() takes these off both ends
Whitespace == {" ", "\n", "\t"}

\* a variant: text.replace('  ', ' '), each pair of spaces becoming one
RECURSIVE CollapseSpacesPairwise(_)
CollapseSpacesPairwise(text) ==
    IF Len(text) <= 1 THEN text
    ELSE IF text[1] = " " /\ text[2] = " "
         THEN <<" ">> \o CollapseSpacesPairwise(SubSeq(text, 3, Len(text)))
         ELSE <<text[1]>> \o CollapseSpacesPairwise(Tail(text))

\* re.sub(r' +', ' ', text): of a run of spaces the first one stays
RECURSIVE CollapseSpaces(_)
CollapseSpaces(text) ==
    IF Len(text) <= 1 THEN text
    ELSE IF text[1] = " " /\ text[2] = " " THEN CollapseSpaces(Tail(text))
         ELSE <<text[1]>> \o CollapseSpaces(Tail(text))

\* re.sub(r'\n\n+', '\n\n', text): of a run of line breaks two stay at most
RECURSIVE CollapseNewlines(_)
CollapseNewlines(text) ==
    IF Len(text) <= 2 THEN text
    ELSE IF text[1] = "\n" /\ text[2] = "\n" /\ text[3] = "\n"
         THEN CollapseNewlines(Tail(text))
         ELSE <<text[1]>> \o CollapseNewlines(Tail(text))

RECURSIVE LStrip(_)
LStrip(text) ==
    IF text # <<>> /\ Head(text) \in Whitespace THEN LStrip(Tail(text)) ELSE text

RECURSIVE RStrip(_)
RStrip(text) ==
    IF text # <<>> /\ text[Len(text)] \in Whitespace
    THEN RStrip(SubSeq(text, 1, Len(text) - 1))
    ELSE text

\* text.strip()
Strip(text) == RStrip(LStrip(text))

CleanText(text) == Strip(CollapseNewlines(CollapseSpaces(text)))

\* the texts a page may hold, as sequences of characters
RawTexts == UNION {[1..n -> Chars] : n \in 0..MaxChars}

InitClean ==
    /\ store = <<>>
    /\ clock = 0
    /\ nadds = 0
    /\ returned = <<>>
    /\ last = [op |-> "none"]
    /\ procs = NoProcs
    /\ rag_search = OriginalSearch
    /\ sessions = NoSessions
    /\ \E text \in RawTexts :
          page = [op |-> "raw", raw |-> text, text |-> text, before |-> text,
                  passes |-> 0]

\* one more pass of _clean_text over the text
Clean ==
    /\ page.op \in {"raw", "cleaned"}
    /\ page.passes < MaxPasses
    /\ page' = [op |-> "cleaned", raw |-> page.raw, text |-> CleanText(page.text),
                before |-> page.text, passes |-> page.passes + 1]
    /\ UNCHANGED <<store, clock, nadds, returned, last, procs, rag_search, sessions>>

NextClean == Clean

SpecClean == InitClean /\ [][NextClean]_vars

-----------------------------------------------------------------------------
(* _distance_to_score on its own *)

MaxDistance == 21

\* cosine distances in tenths: 0 to 2, and the values rounding puts just outside
Distances == -1..MaxDistance

InitScore ==
    /\ store = <<>>
    /\ clock = 0
    /\ nadds = 0
    /\ returned = <<>>
    /\ last = [op |-> "none"]
    /\ procs = NoProcs
    /\ rag_search = OriginalSearch
    /\ sessions = NoSessions
    /\ \E a \in Distances, b \in Distances :
          a <= b /\ page = [op |-> "distances", lo |-> a, hi |-> b]

\* the score of each of two distances
Score ==
    /\ page.op = "distances"
    /\ page' = [op |-> "scored", lo |-> page.lo, hi |-> page.hi,
                lo_score |-> DistanceToScore(page.lo),
                hi_score |-> DistanceToScore(page.hi)]
    /\ UNCHANGED <<store, clock, nadds, returned, last, procs, rag_search, sessions>>

NextScore == Score

SpecScore == InitScore /\ [][NextScore]_vars

-----------------------------------------------------------------------------
(* Properties of the retrieval service *)

RecordsOf(coll, doc_id) == CollectionGet(coll, [doc_id |-> doc_id])

\* C1: a search scoped by a non-empty user_id returns only records whose
\* uploaded_by is that user_id, whatever filters the caller passed.
C1_ScopedSearchOnlyOwnRecords ==
    (last.op = "search" /\ ~last.raised /\ Truthy(last.user_id)) =>
        \A i \in 1..Len(last.result) :
            last.result[i].metadata.uploaded_by = last.user_id

\* a scoped search with a caller filter found something while another user's
\* records match the caller's filter too
C1_Witness ==
    /\ last.op = "search"
    /\ Truthy(last.user_id)
    /\ last.filters.some
    /\ DOMAIN last.filters.val # {}
    /\ last.result # <<>>
    /\ \E i \in 1..Len(store) :
          /\ Matches(last.filters.val, store[i])
          /\ store[i].metadata.uploaded_by # last.user_id

\* C2: passing user_id never loosens the caller's filter: every record returned
\* satisfies every key-value pair of the caller's filters.
C2_UserIdNeverLoosensFilters ==
    (last.op = "search" /\ ~last.raised /\ last.filters.some) =>
        \A i \in 1..Len(last.result) : Matches(last.filters.val, last.result[i])

\* C3: delete_document removes all and only the records of doc_id, returns True
\* exactly when a record was removed, and on a miss or a store failure returns
\* False, raises nothing and leaves the collection as it was.
C3_DeleteAllAndOnly ==
    [][(last'.op = "delete_document") =>
        LET d == last'.doc_id
            Mine(r) == r.metadata.doc_id = d
            Other(r) == r.metadata.doc_id # d
        IN  /\ ~last'.raised
            /\ SelectSeq(store', Other) = SelectSeq(store, Other)
            /\ (last'.fail = "none") => (SelectSeq(store', Mine) = <<>>)
            /\ last'.result = (store' # store)
            /\ (SelectSeq(store, Mine) = <<>> \/ last'.fail # "none") =>
                  (last'.result = FALSE /\ store' = store)
      ]_vars

\* a document that add_document returned was deleted, and other records remain
C3_Witness ==
    /\ last.op = "delete_document"
    /\ last.result = TRUE
    /\ store # <<>>
    /\ last.doc_id \notin DocIds(store)
    /\ \E i \in 1..Len(returned) : returned[i] = last.doc_id

\* C4: after add_document returns d for N chunks, the collection holds exactly N
\* records with doc_id d, and their ids are pairwise distinct.
C4_ExactlyNRecords ==
    (last.op = "add_document" /\ ~last.raised) =>
        LET mine == RecordsOf(store, last.result)
        IN  /\ Len(mine) = last.n
            /\ Cardinality(Ids(mine)) = Len(mine)

\* C5: any two add_document calls return different doc_ids.
C5_DocIdsUnique ==
    \A i, j \in 1..Len(returned) : i # j => returned[i] # returned[j]

\* C7: when encoding the query fails, search returns [] and raises nothing.
C7_EncodeFailureCaught ==
    (last.op = "search" /\ last.fail = "encode") =>
        (~last.raised /\ last.result = <<>>)

\* C8: when the collection query raises, search returns [], raises nothing and
\* leaves the collection unchanged.
C8_QueryFailureCaught ==
    [][(last'.op = "search" /\ last'.fail = "query") =>
        (~last'.raised /\ last'.result = <<>> /\ store' = store)]_vars

\* the query failed on a collection that holds records the query would have matched
C8_Witness ==
    /\ last.op = "search"
    /\ last.fail = "query"
    /\ ~last.filters.some
    /\ last.user_id = None
    /\ store # <<>>

\* C13: search returns the matches of the collection query in the order the
\* collection gave them, none dropped: distance never decreases along the list,
\* relevance_score never increases, and the list has at most n_results entries.
C13_SearchKeepsStoreOrder ==
    (last.op = "search" /\ ~last.raised) =>
        LET res == last.result
            hits == CollectionQuery(store, Encode(last.query), last.n_results,
                                    WhereFilter(last.filters, last.user_id))
        IN  /\ Len(res) <= last.n_results
            /\ \A i, j \in 1..Len(res) :
                  i < j => /\ res[i].distance <= res[j].distance
                           /\ res[i].relevance_score >= res[j].relevance_score
            /\ (last.fail = "none") =>
                  /\ Len(res) = Len(hits)
                  /\ \A i \in 1..Len(res) :
                        /\ res[i].chunk_id = hits[i].id
                        /\ res[i].distance = hits[i].distance

\* a search returned three hits, the last farther and scored lower than the
\* first, while the collection holds a farther record before a nearer one
C13_Witness ==
    /\ last.op = "search"
    /\ Len(last.result) >= 3
    /\ last.result[1].distance < last.result[Len(last.result)].distance
    /\ last.result[1].relevance_score > last.result[Len(last.result)].relevance_score
    /\ \E i, j \in 1..Len(store) :
          /\ i < j
          /\ Distance(Encode(last.query), store[i].embedding)
                > Distance(Encode(last.query), store[j].embedding)

\* C15: with a user_id supplied, the result of get_collection_stats has no
\* by_user key, in every state of the collection.
C15_ScopedStatsOmitByUser ==
    (last.op = "get_collection_stats" /\ ~last.raised /\ Truthy(last.user_id)) =>
        "by_user" \notin DOMAIN last.result

\* the records get_collection_stats(user_id) answers about
InScope(coll, user_id) ==
    LET Mine(r) == Truthy(user_id) => r.metadata.uploaded_by = user_id
    IN  SelectSeq(coll, Mine)

\* C16: when the metadata were read, get_collection_stats(user_id) reports as
\* unique_docs the number of distinct doc_ids among the records in scope (those
\* of user_id if one is given, all otherwise) and as total_chunks the number
\* of these records.
C16_StatsCountScope ==
    (last.op = "get_collection_stats" /\ last.fail = "none") =>
        LET scope == InScope(store, last.user_id)
        IN  /\ last.result.total_chunks = Len(scope)
            /\ last.result.unique_docs = Cardinality(DocIds(scope))

\* stats scoped to a user who holds two records of one document while another
\* user holds a record of another document
C16_Witness ==
    /\ last.op = "get_collection_stats"
    /\ last.fail = "none"
    /\ Truthy(last.user_id)
    /\ last.result.total_chunks = 2
    /\ last.result.unique_docs = 1
    /\ Cardinality(DocIds(store)) = 2
    /\ Len(store) > 2

\* C17: get_user_documents(u) returns exactly one summary for each doc_id that
\* has a record uploaded by u and none for any other doc_id, and the fields of
\* each summary are those of the first record of that doc_id in the collection.
C17_OneSummaryPerDocument ==
    (last.op = "get_user_documents" /\ last.fail = "none") =>
        LET res == last.result
            own == CollectionGet(store, [uploaded_by |-> last.user_id])
        IN  /\ {res[i].doc_id : i \in 1..Len(res)} = DocIds(own)
            /\ \A i, j \in 1..Len(res) : i # j => res[i].doc_id # res[j].doc_id
            /\ \A i \in 1..Len(res) :
                  res[i] = Summary(RecordsOf(store, res[i].doc_id)[1].metadata)

\* C20: in every step of any call, a record of the collection either stays,
\* with the same id, text, embedding and metadata, or goes in a delete_document
\* of its doc_id that leaves no record of that doc_id behind; add_document
\* changes no record it finds, also when it generates an id the collection holds.
C20_RecordsImmutableUntilDeleted ==
    [][\A i \in 1..Len(store) :
          LET r == store[i]
              Same(x) == x.id = r.id
              kept == SelectSeq(store', Same)
          IN  \/ kept = <<r>>
              \/ /\ kept = <<>>
                 /\ last'.op = "delete_document"
                 /\ last'.doc_id = r.metadata.doc_id
                 /\ RecordsOf(store', r.metadata.doc_id) = <<>>
      ]_vars

\* add_document returned a doc_id returned before, and the record the earlier
\* call stored under it is still there beside one of this call
C20_Witness ==
    /\ last.op = "add_document"
    /\ ~last.raised
    /\ \E i, j \in 1..Len(returned) : i # j /\ returned[i] = returned[j]
    /\ LET mine == RecordsOf(store, last.result)
       IN  \E i, j \in 1..Len(mine) :
              mine[i].metadata.uploaded_by # mine[j].metadata.uploaded_by

\* C26: when embedding the chunk texts fails, add_document raises and the
\* collection is exactly as it was before the call.
C26_EncodeFailureWritesNothing ==
    [][(last'.op = "add_document" /\ last'.fail = "encode") =>
        (last'.raised /\ store' = store)]_vars

\* the encode failed for a two-chunk document while the collection held a
\* single record, so at least one record of the document was still to write
C26_Witness ==
    /\ last.op = "add_document"
    /\ last.fail = "encode"
    /\ last.n = 2
    /\ Len(store) = 1

-----------------------------------------------------------------------------
(* Properties of concurrent ingestion *)

Started(p) == procs[p].pc # "idle" /\ procs[p].pc # "raised"

\* the ids the call of p writes
PlannedIds(p) == Ids(ProcRecords(procs[p]))

\* C6: two concurrent add_document calls for two different documents write
\* disjoint sets of record ids, and when both have finished each doc_id
\* identifies exactly the chunks of its own document.
C6_ConcurrentIdsDisjoint ==
    (Started(1) /\ Started(2)) =>
        /\ PlannedIds(1) \cap PlannedIds(2) = {}
        /\ (procs[1].pc = "done" /\ procs[2].pc = "done") =>
              \A p \in Procs :
                 LET mine == RecordsOf(store, procs[p].doc_id)
                 IN  {mine[i] : i \in 1..Len(mine)}
                       = {ProcRecords(procs[p])[i] : i \in 1..procs[p].n}

\* the numbers (from 1) of the records of p's document the collection holds,
\* as this call prepared them
Held(p) ==
    LET recs == ProcRecords(procs[p])
    IN  {i \in 1..Len(recs) : \E j \in 1..Len(store) : store[j] = recs[i]}

\* C21: when the write of batch k fails, add_document raises and the
\* collection holds exactly the first 100*k records of the document and none
\* of its later ones.
C21_FailedBatchLeavesPrefix ==
    \A p \in Procs :
        (procs[p].pc = "raised") => Held(p) = 1..(BatchSize * procs[p].k)

\* C21 for a call whose doc_id no other call shares: the prefix stays
C21_PrefixUnlessSharedDocId ==
    \A p \in Procs :
        (/\ procs[p].pc = "raised"
         /\ \A q \in Procs \ {p} : procs[q].pc = "idle" \/ procs[q].doc_id # procs[p].doc_id)
            => Held(p) = 1..(BatchSize * procs[p].k)

-----------------------------------------------------------------------------
(* Properties of the query handler *)

\* what a search over all the documents returns
Unrestricted ==
    SearchOutcome(store, 0, DefaultNResults, Nothing, None, "none").value

\* C24: under every interleaving of two sessions' handlers, a query with scope
\* 'Solo mis documentos' of user u is answered only from records uploaded by
\* u, and a query with scope 'Todos los documentos' is answered from the
\* records of all users.
C24_ScopeHoldsUnderInterleaving ==
    \A s \in Sessions :
        LET a == sessions[s].answer
        IN  (a.kind = "sources") =>
              IF sessions[s].scope = OwnDocs
              THEN \A i \in 1..Len(a.sources) :
                      a.sources[i].metadata.uploaded_by = SessionUser[s]
              ELSE (a.fail = "none") => a.sources = Unrestricted

\* C25: when no handler is running, agent.rag.search is the original
\* DociaRAG.search, whether generate_response returned or raised.
C25_SearchRestoredAfterHandler ==
    (\A s \in Sessions : sessions[s].pc = "idle") => rag_search = OriginalSearch

-----------------------------------------------------------------------------
(* Properties of the chunker *)

Produced == page.op \in {"split", "extracted"}

\* a chunk that is one paragraph which alone is over the budget
OversizeParagraph(chunk) ==
    Len(chunk.text) = 1 /\ CountTokens(<<chunk.text[1]>>) > ChunkBudget

\* C9: every chunk of _split_by_sections has at most 600 tokens, or is a single
\* paragraph that alone has more than 600.
C9_ChunkWithinBudgetOrOversize ==
    (page.op = "split") =>
        \A i \in 1..Len(page.chunks) :
            \/ CountTokens(page.chunks[i].text) <= ChunkBudget
            \/ OversizeParagraph(page.chunks[i])

\* a page of 600 tokens or more was split into a chunk of several paragraphs
\* and a chunk that is one oversize paragraph
C9_Witness ==
    /\ page.op = "split"
    /\ CountTokens(page.text) >= ChunkBudget
    /\ \E i \in 1..Len(page.chunks) : Len(page.chunks[i].text) > 1
    /\ \E i \in 1..Len(page.chunks) : OversizeParagraph(page.chunks[i])

\* C10: every chunk of either extractor has fewer than 600 tokens, unless it is
\* a single paragraph that alone has more than 600.
C10_EveryChunkBelowBudget ==
    Produced =>
        \A i \in 1..Len(page.chunks) :
            \/ CountTokens(page.chunks[i].text) < ChunkBudget
            \/ OversizeParagraph(page.chunks[i])

\* C10 as the code has it: a chunk of _split_by_sections has fewer than 600
\* tokens unless it is a single paragraph of 600 tokens or more, and a slide
\* is one chunk, whatever its size, if it has any text.
C10_BelowBudgetOrWholeParagraph ==
    /\ (page.op = "split") =>
          \A i \in 1..Len(page.chunks) :
              \/ CountTokens(page.chunks[i].text) < ChunkBudget
              \/ /\ Len(page.chunks[i].text) = 1
                 /\ CountTokens(<<page.chunks[i].text[1]>>) >= ChunkBudget
    /\ (page.op = "extracted") =>
          /\ Len(page.chunks) = (IF Content(page.slide) = <<>> THEN 0 ELSE 1)
          /\ \A i \in 1..Len(page.chunks) :
                page.chunks[i].tokens = CountTokens(page.chunks[i].text)

\* a page was split into a chunk of several paragraphs and a chunk that is one
\* paragraph of exactly 600 tokens
C10_Witness ==
    /\ page.op = "split"
    /\ \E i \in 1..Len(page.chunks) :
          Len(page.chunks[i].text) > 1 /\ CountTokens(page.chunks[i].text) < ChunkBudget
    /\ \E i \in 1..Len(page.chunks) :
          Len(page.chunks[i].text) = 1 /\ CountTokens(page.chunks[i].text) = ChunkBudget

\* a slide with a title and a body became one chunk of 600 tokens or more
C10_SlideOverBudget ==
    /\ page.op = "extracted"
    /\ \E i \in 1..Len(page.chunks) :
          Len(page.chunks[i].text) > 1 /\ CountTokens(page.chunks[i].text) >= ChunkBudget

\* the paragraphs of the chunks, read in chunk order
RECURSIVE ChunkParagraphs(_)
ChunkParagraphs(chunks) ==
    IF chunks = <<>> THEN <<>> ELSE Head(chunks).text \o ChunkParagraphs(Tail(chunks))

\* C11: for a page of 600 tokens or more, the paragraphs of the chunks, read in
\* chunk order, are exactly the non-empty paragraphs of the page in their order:
\* none is lost, none is repeated.
C11_ParagraphsPreserved ==
    (page.op = "split" /\ CountTokens(page.text) >= ChunkBudget) =>
        ChunkParagraphs(page.chunks) = Paragraphs(page.text)

\* a page with a short first paragraph was cut into several chunks, one of
\* them holding more than one paragraph
C11_Witness ==
    /\ page.op = "split"
    /\ CountTokens(page.text) >= ChunkBudget
    /\ page.text[1].len < ShortLimit
    /\ Len(page.chunks) > 1
    /\ \E i \in 1..Len(page.chunks) : Len(page.chunks[i].text) > 1

\* C12: a normalized page under 600 tokens comes back as exactly one chunk: its
\* text is the input, its page the page number, its section the page label and
\* its token count that of the input.
C12_ShortPageOneChunk ==
    (page.op = "split" /\ CountTokens(page.text) < ChunkBudget) =>
        page.chunks = <<[text |-> page.text, page |-> page.num,
                         section |-> PageLabel(page.num),
                         tokens |-> CountTokens(page.text)]>>

\* a page under the budget that starts with a heading and holds a blank
\* paragraph came back as one chunk
C12_Witness ==
    /\ page.op = "split"
    /\ CountTokens(page.text) < ChunkBudget
    /\ LooksLikeTitle(page.text[1])
    /\ \E i \in 1..Len(page.text) : Blank(page.text[i])
    /\ Len(page.chunks) = 1

\* the number of paragraphs consumed when chunk number j is flushed
Consumed(chunks, j) == Len(ChunkParagraphs(SubSeq(chunks, 1, j)))

\* the running section label after the first m paragraphs, if every heading
\* past the first paragraph renews it when it is consumed
LabelAfter(paragraphs, m, page_num) ==
    LET headings == {i \in 2..m : LooksLikeTitle(paragraphs[i])}
    IN  IF headings # {}
        THEN paragraphs[CHOOSE i \in headings : \A k \in headings : k <= i].lines
        ELSE IF paragraphs[1].len < ShortLimit THEN paragraphs[1].lines
        ELSE PageLabel(page_num)

\* C22: on a page of 600 tokens or more, the section of every chunk is the most
\* recent paragraph, past the first, shorter than 100 characters and not ending
\* in a period that was consumed before the chunk was flushed, whether it was
\* appended to a buffer or started one.
C22_SectionFollowsHeadings ==
    (page.op = "split" /\ CountTokens(page.text) >= ChunkBudget) =>
        \A j \in 1..Len(page.chunks) :
            page.chunks[j].section =
                LabelAfter(Paragraphs(page.text), Consumed(page.chunks, j), page.num)

\* C22 for the headings that start a buffer: a chunk that starts with such a
\* paragraph carries it as its section
C22_HeadingStartingChunk ==
    (page.op = "split" /\ CountTokens(page.text) >= ChunkBudget) =>
        \A j \in 2..Len(page.chunks) :
            LooksLikeTitle(page.chunks[j].text[1]) =>
                page.chunks[j].section = page.chunks[j].text[1].lines

\* the texts of the shapes a chunk was built from, in the order they occur in it
RECURSIVE ShapeTexts(_)
ShapeTexts(text) ==
    IF text = <<>> THEN <<>> ELSE Head(text).lines \o ShapeTexts(Tail(text))

\* the title shape's text, then the text of each other shape that has one
TitleThenOthers(slide) ==
    LET n == Len(slide.shapes)
        Others(i) == i # slide.title /\ slide.shapes[i].len > 0
        RECURSIVE From(_)
        From(i) == IF i > n THEN <<>>
                   ELSE (IF Others(i) THEN slide.shapes[i].lines ELSE <<>>) \o From(i + 1)
    IN  (IF SlideTitle(slide) # <<>> THEN slide.shapes[slide.title].lines ELSE <<>>)
            \o From(1)

\* C23: the text of the chunk of a slide holds the title shape's text once,
\* then the text of each other shape with text once, in shape order.
C23_TitleOnceThenShapes ==
    (page.op = "extracted") =>
        \A i \in 1..Len(page.chunks) :
            ShapeTexts(page.chunks[i].text) = TitleThenOthers(page.slide)

\* C23 for a slide without a title placeholder: each shape's text once, in order
C23_UntitledSlideShapesOnce ==
    (page.op = "extracted" /\ page.slide.title = 0) =>
        \A i \in 1..Len(page.chunks) :
            ShapeTexts(page.chunks[i].text) = TitleThenOthers(page.slide)

-----------------------------------------------------------------------------
(* Properties of the relevance score *)

\* C14: the score of a distance d (in tenths) is 10 below 0.4, 8 from 0.4 to
\* below 0.6, 6 from 0.6 to below 0.8, 4 from 0.8 to below 1.0 and 2 from 1.0
\* on; a larger distance never gets a larger score.
C14_ScoreBands ==
    (page.op = "scored") =>
        /\ \A x \in {<<page.lo, page.lo_score>>, <<page.hi, page.hi_score>>} :
              LET d == x[1]
                  sc == x[2]
              IN  /\ sc \in {10, 8, 6, 4, 2}
                  /\ (sc = 10) <=> (d < 4)
                  /\ (sc = 8) <=> (4 <= d /\ d < 6)
                  /\ (sc = 6) <=> (6 <= d /\ d < 8)
                  /\ (sc = 4) <=> (8 <= d /\ d < 10)
                  /\ (sc = 2) <=> (10 <= d)
        /\ page.lo_score >= page.hi_score

\* a distance of exactly 0.4 and one of exactly 1.0 were scored
C14_Witness ==
    /\ page.op = "scored"
    /\ page.lo = 4
    /\ page.hi = 10
    /\ page.lo_score # page.hi_score

-----------------------------------------------------------------------------
(* Properties of _clean_text *)

\* C18: _clean_text is idempotent: a pass over a text that already went through
\* _clean_text gives this text back.
C18_CleanTextIdempotent ==
    (page.op = "cleaned" /\ page.passes >= 2) => page.text = page.before

\* a second pass ran over what the first pass left of a text with a run of
\* spaces inside and whitespace at an end
C18_Witness ==
    /\ page.op = "cleaned"
    /\ page.passes = 2
    /\ page.text # <<>>
    /\ CollapseSpaces(Strip(page.raw)) # Strip(page.raw)
    /\ Strip(page.raw) # page.raw

-----------------------------------------------------------------------------
(* Properties of the extractors on a file *)

\* C19: for a file that cannot be opened, extract_from_pdf and
\* extract_from_ppt return empty metadata and an empty chunk list and raise
\* nothing.
C19_UnopenableFileEmptyResult ==
    (page.op = "result" /\ ~page.file.opens) =>
        /\ ~page.raised
        /\ DOMAIN page.result = {"metadata", "chunks"}
        /\ DOMAIN page.result.metadata = {}
        /\ page.result.chunks = <<>>

\* extract_from_pdf ran on a file that does not open, though it is a document
\* with a title and a page of text
C19_Witness ==
    /\ page.op = "result"
    /\ page.file.kind = "pdf"
    /\ ~page.file.opens
    /\ page.file.title = "Guía"
    /\ \E i \in 1..Len(page.file.pages) : StripBlank(page.file.pages[i]) # <<>>

\* the same for extract_from_ppt and a deck with a slide that has text
C19_WitnessPpt ==
    /\ page.op = "result"
    /\ page.file.kind = "ppt"
    /\ ~page.file.opens
    /\ \E i \in 1..Len(page.file.pages) : Content(page.file.pages[i]) # <<>>

=============================================================================
